---------------------------- MODULE Spec2Model ----------------------------
(***************************************************************************)
(* Model of the ibm_is_vpn_server_route resource of the IBM Cloud          *)
(* Terraform provider: the Create / Read / Update / Delete handlers, the   *)
(* importer and the two poll-wait helpers built on StateChangeConf; of the *)
(* data sources ibm_is_images, ibm_pi_spp_placement_group and ibm_pi_key;  *)
(* of the helpers that flatten the reasons of a route; of the test of      *)
(* the Redis database; and of two handlers running at the same time.       *)
(* Each part has a specification of its own: Spec, DataSpec, FlattenSpec,  *)
(* TestSpec, ConcSpec.                                                     *)
(*                                                                         *)
(* Identifiers and resource IDs are sequences of one-character strings so  *)
(* that building an ID and splitting it again are real computations.       *)
(* Times are in milliseconds.  The IBM Cloud backend is an environment     *)
(* that answers every request nondeterministically.                        *)
(***************************************************************************)
EXTENDS Integers, Sequences, FiniteSets, TLC

(***************************************************************************)
(* Bounds of the model                                                     *)
(***************************************************************************)
\* the timeouts of the resource's timeouts block are 10 s, 20 s, ...,
\* MaxTimeoutSteps * 10 s
MaxTimeoutSteps == 3

(***************************************************************************)
(* Program constants                                                       *)
(***************************************************************************)
isVPNServerRouteStatusPending  == "pending"
isVPNServerRouteStatusUpdating == "updating"
isVPNServerRouteStatusStable   == "stable"
isVPNServerRouteStatusFailed   == "failed"
isVPNServerRouteStatusDeleting == "deleting"
isVPNServerRouteStatusDeleted  == "deleted"

\* constants of the VPN server resource of the same package, used by the
\* wait helpers of the route
isVPNServerStatusPending == "pending"
isVPNServerStatusStable  == "stable"
isVPNServerStatusDeleted == "deleted"

\* time.Second, in milliseconds
Second == 1000

\* StateChangeConf.Delay and StateChangeConf.MinTimeout of both wait helpers
Delay      == 10 * Second
MinTimeout == 10 * Second

\* WaitForState: the grace period granted to a refresh that is in flight
\* when the timeout fires, the wait after the first refresh, and the upper
\* bound of the exponential backoff
refreshGracePeriod == 30 * Second
FirstWait          == Second \div 10
MaxBackoff         == 10 * Second

\* variant of StableTarget: "updating" counts as a target
StableTarget_Updating ==
    {"stable", isVPNServerRouteStatusFailed, isVPNServerRouteStatusUpdating}

\* Pending and Target of isWaitForVPNServerRouteStable
StablePending == {isVPNServerStatusPending, isVPNServerRouteStatusUpdating}
StableTarget == {isVPNServerStatusStable, isVPNServerRouteStatusFailed}

\* Pending and Target of isWaitForVPNServerRouteDeleted
DeletedPending == {"retry", isVPNServerRouteStatusDeleting}
DeletedTarget == {isVPNServerStatusDeleted, isVPNServerRouteStatusFailed}

\* the attributes resourceIBMIsVPNServerRouteRead sets, in the order of
\* its d.Set calls
ReadAttrs == << "vpn_server", "vpn_route", "destination", "action", "name",
                "created_at", "health_state", "health_reasons", "href",
                "lifecycle_state", "lifecycle_reasons", "resource_type" >>

(***************************************************************************)
(* Strings                                                                 *)
(***************************************************************************)
Sep == "/"

RECURSIVE Contains(_, _)
Contains(id, separator) ==
    IF id = << >> THEN FALSE
    ELSE Head(id) = separator \/ Contains(Tail(id), separator)

\* strings.Split on a one-character separator: the fields between the
\* separators, empty fields included
RECURSIVE SplitFrom(_, _, _)
SplitFrom(id, separator, cur) ==
    IF id = << >> THEN << cur >>
    ELSE IF Head(id) = separator
         THEN << cur >> \o SplitFrom(Tail(id), separator, << >>)
         ELSE SplitFrom(Tail(id), separator, Append(cur, Head(id)))

\* flex.SepIdParts: the parts of id when it contains the separator, an
\* error otherwise
SepIdParts(id, separator) ==
    IF Contains(id, separator)
    THEN [parts |-> SplitFrom(id, separator, << >>), err |-> FALSE]
    ELSE [parts |-> << >>, err |-> TRUE]

\* variant of BuildId: the two identifiers in the wrong order
BuildId_Swapped(vpnServerID, routeID) == routeID \o << Sep >> \o vpnServerID

\* fmt.Sprintf("%s/%s", vpnServerID, routeID) of Create
BuildId(vpnServerID, routeID) == vpnServerID \o << Sep >> \o routeID

(***************************************************************************)
(* Inputs: configuration values and backend answers                        *)
(***************************************************************************)
\* values of the vpn_server argument (the schema validates nothing on it)
ServerIds == { << "s" >>, << "s", "/", "x" >> }

\* route identifiers the backend assigns
RouteIds == { << "r" >>, << "q" >> }

\* IDs handed to terraform import
ImportIds == { << "s", "/", "r" >>, << "s", "/", "r", "/", "x" >>, << "s", "r" >> }

\* lifecycle states a route can report
LifecycleStates == { "pending", "updating", "stable", "failed",
                     "deleting", "deleted", "suspended" }

\* answers to GetVPNServerRoute: status 0 is a failure without a
\* response (response == nil)
GetOk(l, hr, lr) == [status |-> 200, lifecycle |-> l, healthReasons |-> hr,
                     lifecycleReasons |-> lr]
GetFail(st)      == [status |-> st, lifecycle |-> "none",
                     healthReasons |-> FALSE, lifecycleReasons |-> FALSE]

\* (Read copies the lifecycle state it is given and does not look at it)
ReadResponses ==
    { GetOk(l, hr, lr) : l \in {"stable", "pending"}, hr \in BOOLEAN,
                         lr \in BOOLEAN }
    \cup { GetFail(st) : st \in {0, 404, 500} }

PollResponses ==
    { GetOk(l, FALSE, FALSE) : l \in LifecycleStates }
    \cup { GetFail(st) : st \in {0, 404, 500} }

\* answers to the mutating calls
CreateResponses == { [status |-> 201, id |-> r] : r \in RouteIds }
                   \cup { [status |-> st, id |-> << >>] : st \in {0, 400, 404} }
UpdateStatuses  == { 200, 0, 404, 500 }
DeleteStatuses  == { 202, 0, 404, 500 }

\* variant of Failed: the error of the call is not looked at
Failed_Ignored(status) == FALSE

\* the SDK returns an error unless the status is a success status
Failed(status) == status \notin 200..299

\* the timeouts block of the configuration: one timeout per operation
TimeoutKeys == { "create", "update", "delete" }

\* how long the backend takes to answer a poll
GetDurations == { 0, 5 * Second, 45 * Second }

\* the timeouts blocks considered give the three operations three different
\* timeouts, and every operation every choice
Rot(k)         == ((k - 1) % MaxTimeoutSteps) + 1
TimeoutCfgs    == { [create |-> Rot(k) * 10 * Second,
                     update |-> Rot(k + 1) * 10 * Second,
                     delete |-> Rot(k + 2) * 10 * Second] : k \in 1..MaxTimeoutSteps }

(***************************************************************************)
(* Diagnostics                                                             *)
(***************************************************************************)
\* a sub-step label is a sequence of words: << "set", "name" >> is "set-name"
NoDiag == [kind |-> "none", resource |-> "", action |-> "", step |-> << >>]

\* flex.DiscriminatedTerraformErrorf(...).GetDiag()
DiscriminatedTerraformErrorf(resource, action, step) ==
    [kind |-> "tferr", resource |-> resource, action |-> action, step |-> step]

\* flex.TerraformErrorf(...).GetDiag()
TerraformErrorf(resource, action) ==
    [kind |-> "tferr", resource |-> resource, action |-> action, step |-> << >>]

\* diag.FromErr(err)
FromErr == [kind |-> "plain", resource |-> "", action |-> "", step |-> << >>]

HasError(dg) == dg.kind # "none"

ResourceName == "ibm_is_vpn_server_route"

(***************************************************************************)
(* State                                                                   *)
(***************************************************************************)
VARIABLES
    id,       \* d.Id() of the resource
    attrs,    \* the attributes vpn_server and vpn_route of the resource
    written,  \* the attributes the running (or last) handler has set
    diags,    \* the diagnostics the last handler returned
    op,       \* the running (or last) handler
    pc,       \* "idle": no handler runs; "wait": the handler is inside a
              \* wait helper; "done": the handler has returned
    trace,    \* the SDK calls and SetId calls of the handler, in order
    sent,     \* << call, vpn server id, route id >> of every request sent
    created,  \* the identifiers Create combined into the current ID
    answers,  \* the status of the answer to the mutating call and to the
              \* GET of Read in this invocation (-1: not sent)
    w         \* the StateChangeConf wait of the handler

\* the data sources (read handlers without a resource behind them)
VARIABLES
    dsOp,      \* the running (or last) data source read
    dsPc,      \* "idle", "list" (inside the pagination loop), "fetched"
               \* (the loop has ended), "done" (the handler has returned)
    dsId,      \* d.Id() of the data source
    dsAttrs,   \* the attributes the data source read has set
    dsDiags,   \* the diagnostics the data source read returned
    dsFailed,  \* the calls that returned an error in this invocation
    config,    \* the arguments of the data source
    pages,     \* the pages the backend holds for the collection
    listImagesOptions,  \* the local listImagesOptions of imageList
    requests,  \* the list requests sent, in order
    start,     \* the local start of imageList
    allrecs    \* the local allrecs of imageList

\* the flatten helpers
VARIABLES
    reasons,    \* the reasons handed to the flatten helper
    flattened,  \* what the helper returned
    flattenOp   \* the helper applied: "none", "health", "lifecycle"

\* the acceptance test of the Redis database
VARIABLES
    testName,  \* the name drawn for the instance
    region,    \* the region of the run
    applied,   \* the configurations applied so far, in order
    dbState    \* the state of the ibm_database resource as read back

\* two invocations at the same time
VARIABLES
    inv        \* what each of the two invocations holds

routeVars == << id, attrs, written, diags, op, pc, trace, sent, created,
               answers, w >>

dataVars == << dsOp, dsPc, dsId, dsAttrs, dsDiags, dsFailed, config, pages,
              listImagesOptions, requests, start, allrecs >>

flattenVars == << reasons, flattened, flattenOp >>

testVars == << testName, region, applied, dbState >>

\* what the handlers of the VPN server route never touch
notRoute == << dataVars, flattenVars, testVars, inv >>

vars == << routeVars, dataVars, flattenVars, testVars, inv >>

NoAnswers == [mut |-> -1, read |-> -1]

Unset == << "~" >>

\* no wait is running and none has run in this handler
NoWait == [kind |-> "none", cfg |-> << >>, timeout |-> 0, now |-> 0,
           gr |-> "exited", wakeAt |-> 0, doneAt |-> 0, wait |-> 0,
           polls |-> 0, started |-> 0, lastEnd |-> 0, gap |-> -1,
           lastState |-> "", lastStatus |-> -1,
           grace |-> FALSE, graceEnd |-> 0, fired |-> FALSE,
           ended |-> "none"]

InitRoute ==
    /\ id = << >>
    /\ attrs = [vpn_server |-> Unset, vpn_route |-> Unset]
    /\ written = {}
    /\ diags = NoDiag
    /\ op = "none"
    /\ pc = "idle"
    /\ trace = << >>
    /\ sent = {}
    /\ created = << >>
    /\ answers = NoAnswers
    /\ w = NoWait

(***************************************************************************)
(* resourceIBMIsVPNServerRouteRead                                         *)
(***************************************************************************)
\* the inputs of one run of Read: whether the client can be obtained, the
\* answer to the GET, and which d.Set fails (0: none)
ReadInputs ==
    { [clientOk |-> FALSE, resp |-> GetFail(0), failAt |-> 0] }
    \cup { [clientOk |-> TRUE, resp |-> r, failAt |-> 0] :
             r \in { x \in ReadResponses : x.status # 200 } }
    \cup [clientOk : {TRUE}, resp : { x \in ReadResponses : x.status = 200 },
          failAt : 0..Len(ReadAttrs)]

\* the d.Set calls Read executes for an answer: the two reasons lists are
\* set only when the answer carries them
Executed(resp, k) ==
    CASE ReadAttrs[k] = "health_reasons"    -> resp.healthReasons
      [] ReadAttrs[k] = "lifecycle_reasons" -> resp.lifecycleReasons
      [] OTHER                              -> TRUE

\* variant of ReadGetError: a 404 is an error like any other
ReadGetError_No404(get, resp) ==
    [get EXCEPT !.diags = DiscriminatedTerraformErrorf(
                              ResourceName, "read", << "sep-id-parts" >>)]

\* variant of ReadGetError: every failure of the GET clears the ID
ReadGetError_AnyGone(get, resp) ==
    [get EXCEPT !.id = << >>, !.trace = << "read", "setid" >>]

\* Read when the GET has failed: a 404 clears the ID and is no error
ReadGetError(get, resp) ==
    IF resp.status = 404
    THEN [get EXCEPT !.id = << >>, !.trace = << "read", "setid" >>]
    ELSE [get EXCEPT !.diags = DiscriminatedTerraformErrorf(
                                   ResourceName, "read", << "sep-id-parts" >>)]

\* the outcome of Read on a resource with ID curId and attributes curAttrs
ReadOutcome(curId, curAttrs, in) ==
    LET sp   == SepIdParts(curId, Sep)
        same == [id |-> curId, attrs |-> curAttrs, written |-> {},
                 sent |-> {}, trace |-> << >>, diags |-> NoDiag, got |-> -1]
    IN
    IF ~in.clientOk THEN [same EXCEPT !.diags = FromErr]
    ELSE IF sp.err  THEN [same EXCEPT !.diags = FromErr]
    ELSE
      LET vpnServerID == sp.parts[1]
          routeID     == sp.parts[2]
          get  == [same EXCEPT !.sent = {<< "get", vpnServerID, routeID >>},
                               !.trace = << "read" >>,
                               !.got = in.resp.status]
          fail == in.failAt # 0 /\ Executed(in.resp, in.failAt)
          done == { ReadAttrs[k] : k \in
                      { j \in 1..Len(ReadAttrs) :
                          /\ Executed(in.resp, j)
                          /\ (fail => j < in.failAt) } }
      IN
      IF Failed(in.resp.status)
      THEN ReadGetError(get, in.resp)
      ELSE [get EXCEPT
              !.written = done,
              !.attrs = [vpn_server |-> IF "vpn_server" \in done
                                        THEN vpnServerID ELSE curAttrs.vpn_server,
                         vpn_route  |-> IF "vpn_route" \in done
                                        THEN routeID ELSE curAttrs.vpn_route],
              !.diags = IF fail
                        THEN DiscriminatedTerraformErrorf(ResourceName, "read",
                                 << "set", ReadAttrs[in.failAt] >>)
                        ELSE NoDiag]

\* the handler ends by returning what Read returns
ReturnRead(o) ==
    /\ id' = o.id
    /\ attrs' = o.attrs
    /\ written' = o.written
    /\ diags' = o.diags
    /\ trace' = trace \o o.trace
    /\ sent' = sent \cup o.sent
    /\ answers' = [answers EXCEPT !.read = o.got]
    /\ pc' = "done"

\* the handler ends with the diagnostics dg and changes nothing else
ReturnDiag(dg) ==
    /\ diags' = dg
    /\ pc' = "done"
    /\ UNCHANGED << id, attrs, written, trace, sent, answers >>

\* Read as a handler of its own (refresh)
Read ==
    /\ pc = "idle"
    /\ id # << >>
    /\ \E in \in ReadInputs :
         LET o == ReadOutcome(id, attrs, in)
         IN /\ id' = o.id
            /\ attrs' = o.attrs
            /\ written' = o.written
            /\ diags' = o.diags
            /\ trace' = o.trace
            /\ sent' = o.sent
            /\ answers' = [NoAnswers EXCEPT !.read = o.got]
    /\ op' = "read"
    /\ pc' = "done"
    /\ w' = NoWait
    /\ created' = IF id' = << >> THEN << >> ELSE created
    /\ UNCHANGED notRoute

\* terraform import: the pass-through importer keeps the ID it is given
\* and the framework runs Read on it
Import ==
    /\ pc = "idle"
    /\ id = << >>
    /\ \E newId \in ImportIds, in \in ReadInputs :
         LET o == ReadOutcome(newId, attrs, in)
         IN /\ id' = o.id
            /\ attrs' = o.attrs
            /\ written' = o.written
            /\ diags' = o.diags
            /\ trace' = << "setid" >> \o o.trace
            /\ sent' = o.sent
            /\ answers' = [NoAnswers EXCEPT !.read = o.got]
    /\ op' = "import"
    /\ pc' = "done"
    /\ w' = NoWait
    /\ created' = << >>
    /\ UNCHANGED notRoute

(***************************************************************************)
(* The wait helpers and StateChangeConf.WaitForState                       *)
(***************************************************************************)
\* d.Timeout(key)
DTimeout(cfg, key) == cfg[key]

\* WaitForState starts: the refresh goroutine first sleeps for Delay, the
\* caller arms the timeout
NewWait(kind, cfg, timeout) ==
    [NoWait EXCEPT !.kind = kind, !.cfg = cfg, !.timeout = timeout,
                   !.gr = "delay", !.wakeAt = Delay]

isWaitForVPNServerRouteStable(cfg, timeout) == NewWait("stable", cfg, timeout)

\* variant of isWaitForVPNServerRouteDeleted: the create timeout is used
isWaitForVPNServerRouteDeleted_CreateTimeout(cfg) ==
    NewWait("deleted", cfg, DTimeout(cfg, "create"))

isWaitForVPNServerRouteDeleted(cfg) ==
    NewWait("deleted", cfg, DTimeout(cfg, "delete"))

Pending(kind) == IF kind = "stable" THEN StablePending ELSE DeletedPending
Target(kind)  == IF kind = "stable" THEN StableTarget ELSE DeletedTarget

\* variant of StableRefresh: a failed GET is not reported as an error
StableRefresh_Swallow(curId, resp) ==
    IF SepIdParts(curId, Sep).err THEN [state |-> "", err |-> TRUE]
    ELSE IF resp.status # 200     THEN [state |-> "", err |-> FALSE]
    ELSE [state |-> resp.lifecycle, err |-> FALSE]

\* the Refresh function of isWaitForVPNServerRouteStable: the state the
\* poll reports and whether it reports an error
StableRefresh(curId, resp) ==
    IF SepIdParts(curId, Sep).err THEN [state |-> "", err |-> TRUE]
    ELSE IF resp.status # 200     THEN [state |-> "", err |-> TRUE]
    ELSE [state |-> resp.lifecycle, err |-> FALSE]

\* variant of DeletedRefresh: a 404 is an error like any other
DeletedRefresh_No404(curId, resp) ==
    IF SepIdParts(curId, Sep).err THEN [state |-> "", err |-> TRUE]
    ELSE IF resp.status # 200
         THEN [state |-> isVPNServerRouteStatusFailed, err |-> TRUE]
    ELSE [state |-> resp.lifecycle, err |-> FALSE]

\* the Refresh function of isWaitForVPNServerRouteDeleted
DeletedRefresh(curId, resp) ==
    IF SepIdParts(curId, Sep).err THEN [state |-> "", err |-> TRUE]
    ELSE IF resp.status # 200
         THEN IF resp.status = 404
              THEN [state |-> isVPNServerRouteStatusDeleted, err |-> FALSE]
              ELSE [state |-> isVPNServerRouteStatusFailed, err |-> TRUE]
    ELSE [state |-> resp.lifecycle, err |-> FALSE]

Refresh(kind, curId, resp) ==
    IF kind = "stable" THEN StableRefresh(curId, resp)
    ELSE DeletedRefresh(curId, resp)

\* what WaitForState makes of one refresh result (every refresh that
\* reports no error returns a non-nil result, so the not-found counter
\* never counts)
Conform(r, pending, target) ==
    IF r.err THEN "refresh-error"
    ELSE IF r.state \in target THEN "ok"
    ELSE IF r.state \in pending THEN "continue"
    ELSE "unexpected-state"

\* the wait before the next refresh: doubled, then kept within
\* [MinTimeout, 10 s]
NextWait(wait) ==
    LET doubled == wait * 2
    IN IF doubled < MinTimeout THEN MinTimeout
       ELSE IF doubled > MaxBackoff THEN MaxBackoff
       ELSE doubled

\* what is kept of a wait once it has returned
Ended(result, state, status) ==
    [NoWait EXCEPT !.kind = w.kind, !.polls = w.polls, !.lastState = state,
                   !.lastStatus = status, !.fired = w.fired \/ result = "timeout",
                   !.ended = result]

\* variant of FinishErr: a Create whose wait returned an error gives the
\* route up
FinishErr_Untrack(result, state, status) ==
    /\ w' = Ended(result, state, status)
    /\ diags' = TerraformErrorf(ResourceName, op)
    /\ pc' = "done"
    /\ id' = IF op = "create" THEN << >> ELSE id
    /\ UNCHANGED << attrs, written, trace, sent, answers, op, created >>

\* the wait returned an error: Create, Update and Delete return a diagnostic
FinishErr(result, state, status) ==
    /\ w' = Ended(result, state, status)
    /\ ReturnDiag(TerraformErrorf(ResourceName, op))
    /\ UNCHANGED << op, created >>

\* the wait returned without error: Create and Update go on to Read,
\* Delete clears the ID
FinishOk(state, status, in) ==
    /\ w' = Ended("ok", state, status)
    /\ IF op = "delete"
       THEN /\ id' = << >>
            /\ diags' = NoDiag
            /\ trace' = Append(trace, "setid")
            /\ pc' = "done"
            /\ UNCHANGED << attrs, written, sent, answers >>
       ELSE ReturnRead(ReadOutcome(id, attrs, in))
    /\ created' = IF id' = << >> THEN << >> ELSE created
    /\ UNCHANGED op

\* the refresh goroutine wakes up (after Delay the first time, after the
\* current wait later), finds the wait not cancelled, and calls Refresh,
\* which sends the GET
PollStart ==
    /\ pc = "wait"
    /\ w.gr \in {"delay", "sleep"}
    /\ ~w.grace
    /\ w.now = w.wakeAt
    /\ LET sp == SepIdParts(id, Sep)
       IN /\ \E d \in IF sp.err THEN {0} ELSE GetDurations :
               w' = [w EXCEPT !.gr = "refresh",
                              !.doneAt = w.now + d,
                              !.wait = IF @ = 0 THEN FirstWait ELSE @,
                              !.polls = @ + 1,
                              !.started = w.now,
                              !.gap = IF w.polls = 0 THEN -1
                                      ELSE w.now - w.lastEnd]
          /\ sent' = IF sp.err THEN sent
                     ELSE sent \cup {<< "get", sp.parts[1], sp.parts[2] >>}
    /\ trace' = Append(trace, "poll")
    /\ UNCHANGED << id, attrs, written, diags, op, pc, created, answers >>
    /\ UNCHANGED notRoute

\* the GET of a poll is answered and WaitForState looks at the result
PollReturn ==
    /\ pc = "wait"
    /\ w.gr = "refresh"
    /\ w.now = w.doneAt
    /\ \E resp \in PollResponses :
         LET r == Refresh(w.kind, id, resp)
             c == Conform(r, Pending(w.kind), Target(w.kind))
         IN CASE c = "ok" ->
                   \E in \in ReadInputs : FinishOk(r.state, resp.status, in)
              [] c = "continue" /\ ~w.grace ->
                   /\ w' = [w EXCEPT !.gr = "sleep",
                                     !.wait = NextWait(@),
                                     !.wakeAt = w.now + NextWait(w.wait),
                                     !.lastEnd = w.now,
                                     !.lastState = r.state,
                                     !.lastStatus = resp.status]
                   /\ UNCHANGED << id, attrs, written, diags, op, pc, trace,
                                   sent, created, answers >>
              [] OTHER ->
                   FinishErr(IF w.grace THEN "timeout" ELSE c,
                             r.state, resp.status)
    /\ UNCHANGED notRoute

\* variant of Timeout: the wait does not act on its timeout
Timeout_Ignored ==
    /\ pc = "wait"
    /\ ~w.grace
    /\ w.now = w.timeout
    /\ UNCHANGED vars

\* the timeout of the wait fires: a sleeping goroutine is cancelled and
\* the wait returns a timeout error, a refresh in flight gets the grace
\* period
Timeout ==
    /\ pc = "wait"
    /\ ~w.grace
    /\ w.now = w.timeout
    /\ IF w.gr = "refresh"
       THEN /\ w' = [w EXCEPT !.grace = TRUE, !.fired = TRUE,
                              !.graceEnd = w.now + refreshGracePeriod]
            /\ UNCHANGED << id, attrs, written, diags, op, pc, trace, sent,
                            created, answers >>
       ELSE FinishErr("timeout", w.lastState, w.lastStatus)
    /\ UNCHANGED notRoute

\* the grace period ends before the refresh in flight has returned
GraceExpires ==
    /\ pc = "wait"
    /\ w.grace
    /\ w.now = w.graceEnd
    /\ FinishErr("timeout", w.lastState, w.lastStatus)
    /\ UNCHANGED notRoute

\* the context of the handler is cancelled while it waits
CtxCancel ==
    /\ pc = "wait"
    /\ FinishErr(IF w.grace THEN "timeout" ELSE "cancelled",
                 w.lastState, w.lastStatus)
    /\ UNCHANGED notRoute

\* time passes until the next timer or answer is due
Advance ==
    /\ pc = "wait"
    /\ LET due == (IF w.gr \in {"delay", "sleep"} /\ ~w.grace
                   THEN {w.wakeAt} ELSE {})
                  \cup (IF w.gr = "refresh" THEN {w.doneAt} ELSE {})
                  \cup (IF w.grace THEN {w.graceEnd} ELSE {w.timeout})
       IN /\ \A t \in due : t > w.now
          /\ w' = [w EXCEPT !.now = CHOOSE t \in due : \A u \in due : t <= u]
    /\ UNCHANGED << id, attrs, written, diags, op, pc, trace, sent, created,
                    answers >>
    /\ UNCHANGED notRoute

(***************************************************************************)
(* resourceIBMIsVPNServerRouteCreate                                       *)
(***************************************************************************)
Create ==
    /\ pc = "idle"
    /\ id = << >>
    /\ \E s \in ServerIds, cfg \in TimeoutCfgs, clientOk \in BOOLEAN,
          resp \in CreateResponses :
         /\ attrs' = [vpn_server |-> s, vpn_route |-> Unset]
         /\ written' = {}
         /\ op' = "create"
         /\ answers' = [NoAnswers EXCEPT !.mut = IF clientOk THEN resp.status
                                                 ELSE -1]
         /\ IF ~clientOk
            THEN /\ diags' = DiscriminatedTerraformErrorf(
                                 ResourceName, "create", << "initialize-client" >>)
                 /\ trace' = << >>
                 /\ sent' = {}
                 /\ pc' = "done"
                 /\ w' = NoWait
                 /\ UNCHANGED << id, created >>
            ELSE IF Failed(resp.status)
            THEN /\ diags' = TerraformErrorf(ResourceName, "create")
                 /\ trace' = << "create" >>
                 /\ sent' = {<< "create", s, << >> >>}
                 /\ pc' = "done"
                 /\ w' = NoWait
                 /\ UNCHANGED << id, created >>
            ELSE /\ id' = BuildId(s, resp.id)
                 /\ created' = << s, resp.id >>
                 /\ diags' = NoDiag
                 /\ trace' = << "create", "setid" >>
                 /\ sent' = {<< "create", s, << >> >>}
                 /\ pc' = "wait"
                 /\ w' = isWaitForVPNServerRouteStable(
                             cfg, DTimeout(cfg, "create"))
    /\ UNCHANGED notRoute

(***************************************************************************)
(* resourceIBMIsVPNServerRouteUpdate                                       *)
(***************************************************************************)
Update ==
    /\ pc = "idle"
    /\ id # << >>
    /\ \E hasChange \in BOOLEAN, cfg \in TimeoutCfgs, clientOk \in BOOLEAN,
          status \in UpdateStatuses :
         LET sp == SepIdParts(id, Sep)
         IN /\ written' = {}
            /\ op' = "update"
            /\ answers' = [NoAnswers EXCEPT
                              !.mut = IF clientOk /\ ~sp.err /\ hasChange
                                      THEN status ELSE -1]
            /\ UNCHANGED << id, attrs, created >>
            /\ IF ~clientOk
               THEN /\ diags' = DiscriminatedTerraformErrorf(
                                  ResourceName, "update", << "initialize-client" >>)
                    /\ trace' = << >>
                    /\ sent' = {}
                    /\ pc' = "done"
                    /\ w' = NoWait
               ELSE IF sp.err
               THEN /\ diags' = DiscriminatedTerraformErrorf(
                                  ResourceName, "update", << "sep-id-parts" >>)
                    /\ trace' = << >>
                    /\ sent' = {}
                    /\ pc' = "done"
                    /\ w' = NoWait
               ELSE IF hasChange /\ Failed(status)
               THEN /\ diags' = TerraformErrorf(ResourceName, "update")
                    /\ trace' = << "update" >>
                    /\ sent' = {<< "update", sp.parts[1], sp.parts[2] >>}
                    /\ pc' = "done"
                    /\ w' = NoWait
               ELSE /\ diags' = NoDiag
                    /\ trace' = IF hasChange THEN << "update" >> ELSE << >>
                    /\ sent' = IF hasChange
                               THEN {<< "update", sp.parts[1], sp.parts[2] >>}
                               ELSE {}
                    /\ pc' = "wait"
                    /\ w' = isWaitForVPNServerRouteStable(
                                cfg, DTimeout(cfg, "update"))
    /\ UNCHANGED notRoute

(***************************************************************************)
(* resourceIBMIsVPNServerRouteDelete                                       *)
(***************************************************************************)
Delete ==
    /\ pc = "idle"
    /\ id # << >>
    /\ \E cfg \in TimeoutCfgs, clientOk \in BOOLEAN, status \in DeleteStatuses :
         LET sp == SepIdParts(id, Sep)
         IN /\ written' = {}
            /\ op' = "delete"
            /\ answers' = [NoAnswers EXCEPT
                              !.mut = IF clientOk /\ ~sp.err
                                      THEN status ELSE -1]
            /\ UNCHANGED << id, attrs, created >>
            /\ IF ~clientOk
               THEN /\ diags' = DiscriminatedTerraformErrorf(
                                  ResourceName, "delete", << "initialize-client" >>)
                    /\ trace' = << >>
                    /\ sent' = {}
                    /\ pc' = "done"
                    /\ w' = NoWait
               ELSE IF sp.err
               THEN /\ diags' = DiscriminatedTerraformErrorf(
                                  ResourceName, "delete", << "sep-id-parts" >>)
                    /\ trace' = << >>
                    /\ sent' = {}
                    /\ pc' = "done"
                    /\ w' = NoWait
               ELSE IF Failed(status)
               THEN /\ diags' = TerraformErrorf(ResourceName, "delete")
                    /\ trace' = << "delete" >>
                    /\ sent' = {<< "delete", sp.parts[1], sp.parts[2] >>}
                    /\ pc' = "done"
                    /\ w' = NoWait
               ELSE /\ diags' = NoDiag
                    /\ trace' = << "delete" >>
                    /\ sent' = {<< "delete", sp.parts[1], sp.parts[2] >>}
                    /\ pc' = "wait"
                    /\ w' = isWaitForVPNServerRouteDeleted(cfg)
    /\ UNCHANGED notRoute

(***************************************************************************)
(* resourceVPNServerRouteFlattenLifecycleReasons and                       *)
(* resourceVPNServerRouteFlattenHealthReasons                              *)
(***************************************************************************)
\* an absent optional value (a nil pointer, an unset option) is the empty
\* sequence, a present one the sequence of the value
Nil == << >>
Some(v) == << v >>

\* the lists of reasons handed to the helpers have at most MaxReasons
\* entries
MaxReasons == 2

isInstanceLifecycleReasonsCode     == "code"
isInstanceLifecycleReasonsMessage  == "message"
isInstanceLifecycleReasonsMoreInfo == "more_info"
isVolumeHealthReasonsCode     == "code"
isVolumeHealthReasonsMessage  == "message"
isVolumeHealthReasonsMoreInfo == "more_info"

\* a reason of the SDK: three optional strings
Reasons ==
    [Code : { Nil, Some("c1"), Some("c2") },
     Message : { Nil, Some("m1") },
     MoreInfo : { Nil, Some("u1") }]

ReasonLists == UNION { [1..n -> Reasons] : n \in 0..MaxReasons }

RECURSIVE resourceVPNServerRouteFlattenLifecycleReasons(_)
resourceVPNServerRouteFlattenLifecycleReasons(lifecycleReasons) ==
    IF Len(lifecycleReasons) = 0 THEN << >>
    ELSE LET lr == Head(lifecycleReasons)
             currentLR ==
                 (isInstanceLifecycleReasonsCode :> lr.Code[1])
                 @@ (isInstanceLifecycleReasonsMessage :> lr.Message[1])
                 @@ (IF lr.MoreInfo # Nil
                     THEN (isInstanceLifecycleReasonsMoreInfo :> lr.MoreInfo[1])
                     ELSE << >>)
         IN (IF lr.Code # Nil /\ lr.Message # Nil
             THEN << currentLR >> ELSE << >>)
            \o resourceVPNServerRouteFlattenLifecycleReasons(
                   Tail(lifecycleReasons))

\* variant of resourceVPNServerRouteFlattenHealthReasons: more_info is
\* never copied
resourceVPNServerRouteFlattenHealthReasons_NoMoreInfo(healthReasons) ==
    LET kept == SelectSeq(healthReasons,
                    LAMBDA hr : hr.Code # Nil /\ hr.Message # Nil)
    IN [i \in 1..Len(kept) |->
           (isVolumeHealthReasonsCode :> kept[i].Code[1])
           @@ (isVolumeHealthReasonsMessage :> kept[i].Message[1])]

RECURSIVE resourceVPNServerRouteFlattenHealthReasons(_)
resourceVPNServerRouteFlattenHealthReasons(healthReasons) ==
    IF Len(healthReasons) = 0 THEN << >>
    ELSE LET hr == Head(healthReasons)
             currentHR ==
                 (isVolumeHealthReasonsCode :> hr.Code[1])
                 @@ (isVolumeHealthReasonsMessage :> hr.Message[1])
                 @@ (IF hr.MoreInfo # Nil
                     THEN (isVolumeHealthReasonsMoreInfo :> hr.MoreInfo[1])
                     ELSE << >>)
         IN (IF hr.Code # Nil /\ hr.Message # Nil
             THEN << currentHR >> ELSE << >>)
            \o resourceVPNServerRouteFlattenHealthReasons(Tail(healthReasons))

InitFlatten ==
    /\ reasons = << >>
    /\ flattened = << >>
    /\ flattenOp = "none"

\* Read flattens the health reasons of the route it got
FlattenHealthReasons ==
    /\ flattenOp = "none"
    /\ \E rs \in ReasonLists :
         /\ reasons' = rs
         /\ flattened' = resourceVPNServerRouteFlattenHealthReasons(rs)
    /\ flattenOp' = "health"
    /\ UNCHANGED << routeVars, dataVars, testVars, inv >>

\* Read flattens the lifecycle reasons of the route it got
FlattenLifecycleReasons ==
    /\ flattenOp = "none"
    /\ \E rs \in ReasonLists :
         /\ reasons' = rs
         /\ flattened' = resourceVPNServerRouteFlattenLifecycleReasons(rs)
    /\ flattenOp' = "lifecycle"
    /\ UNCHANGED << routeVars, dataVars, testVars, inv >>

\* the helper has returned and its list has been handed to d.Set
FlattenReturn ==
    /\ flattenOp # "none"
    /\ reasons' = << >>
    /\ flattened' = << >>
    /\ flattenOp' = "none"
    /\ UNCHANGED << routeVars, dataVars, testVars, inv >>

FlattenNext ==
    \/ FlattenHealthReasons
    \/ FlattenLifecycleReasons
    \/ FlattenReturn

(***************************************************************************)
(* Data source ibm_is_images: inputs                                       *)
(***************************************************************************)
\* the collection the backend holds has at most MaxImages images, served
\* in at most MaxPages pages
MaxImages == 2
MaxPages  == 2

\* the values the validator of the status argument allows
isImageStatusAllowed == { "available", "deleting", "deprecated", "failed",
                          "obsolete", "pending", "tentative", "unusable" }

\* the images of the backend differ in status and in catalog offering
ImageKinds ==
    [status : { "available", "deprecated" },
     CatalogOffering : { Nil, Some([managed |-> TRUE]),
                         Some([managed |-> FALSE]) }]

\* the image with identifier n and the fields of kind k
Image(n, k) ==
    [id |-> n, status |-> k.status, CatalogOffering |-> k.CatalogOffering]

\* the ways to cut n images into m consecutive pages (a page may be empty)
Cuts(n, m) ==
    { c \in [0..m -> 0..n] :
        /\ c[0] = 0
        /\ c[m] = n
        /\ \A p \in 1..m : c[p - 1] <= c[p] }

\* the collections of the backend: the images, numbered in the order of
\* the collection, and their pages
Collections ==
    UNION { UNION { { [p \in 1..m |->
                         [i \in 1..(c[p] - c[p - 1]) |->
                             Image(c[p - 1] + i, ks[c[p - 1] + i])]] :
                      c \in Cuts(n, m), ks \in [1..n -> ImageKinds] } :
                    m \in 1..MaxPages } :
            n \in 0..MaxImages }

\* the start token that leads to page p (the first page has none)
PageTokens == << "", "b", "c", "d", "e", "f" >>
Token(p) == PageTokens[p]

\* the arguments of the data source that imageList filters on; an unset
\* string argument is "", an unset catalog_managed is Nil
ImagesConfigs ==
    [status : { "", "available", "deprecated" },
     catalog_managed : { Nil, Some(TRUE), Some(FALSE) },
     remote_account_id : { "", "user", "provider", "acct" }]

\* d.GetOk: the value, and whether it is set to something other than the
\* zero value of its type
GetOkString(v) == [v |-> v, ok |-> v # ""]
GetOkBool(v)   == IF v = Nil THEN [v |-> FALSE, ok |-> FALSE]
                  ELSE [v |-> v[1], ok |-> v[1]]

\* the answer of the backend to a list request: the page the start token
\* of the request leads to, with a reference to the next page if any
PageOf(options) ==
    IF options.Start = Nil THEN 1
    ELSE CHOOSE p \in 1..Len(PageTokens) : Token(p) = options.Start[1]

ListImages(coll, options) ==
    LET p == PageOf(options)
    IN [Images |-> coll[p],
        Next   |-> IF p < Len(coll)
                   THEN Some([href |-> << "limit", "50",
                                          "start", Token(p + 1) >>])
                   ELSE Nil]

\* the value of parameter key in the query of a page reference
QueryGet(query, key) ==
    LET at == { i \in 1..Len(query) : i % 2 = 1 /\ query[i] = key }
    IN IF at = {} THEN ""
       ELSE query[(CHOOSE i \in at : \A j \in at : i <= j) + 1]

\* flex.GetNext: the start parameter of the next reference, "" without one
GetNext(next) == IF next = Nil THEN "" ELSE QueryGet(next[1].href, "start")

(***************************************************************************)
(* Data source ibm_is_images: imageList                                    *)
(***************************************************************************)
ImagesName == "(Data) ibm_is_images"
ImageName  == "(Data) ibm_is_image"

NoOptions == [Start |-> Nil, RemoteAccountID |-> Nil]

\* variant of RemoteAccountFilter: the argument is sent as it is written
RemoteAccountFilter_Raw(remoteAccountId) ==
    IF remoteAccountId = "" THEN Nil ELSE Some(remoteAccountId)

\* the remote account filter imageList sends for the argument
RemoteAccountFilter(remoteAccountId) ==
    IF remoteAccountId = "" THEN Nil
    ELSE IF remoteAccountId = "user" THEN Some("null")
    ELSE IF remoteAccountId = "provider" THEN Some("not:null")
    ELSE Some(remoteAccountId)

\* variant of NextOptions: the start token is never put into the request
NextOptions_NoStart(options, token) == options

\* the options of the next list request: the start token, once there is
\* one, is put into the options and stays there
NextOptions(options, token) ==
    IF token # "" THEN [options EXCEPT !.Start = Some(token)] ELSE options

\* variant of StatusFilter: the status argument filters nothing
StatusFilter_Ignored(status, recs) == recs

\* the images of recs, in order, whose status is the one asked for
StatusFilter(status, recs) ==
    IF status # ""
    THEN SelectSeq(recs, LAMBDA image : status = image.status)
    ELSE recs

\* variant of CatalogFilter: every image with a catalog offering is kept
CatalogFilter_AnyOffering(catalogManaged, recs) ==
    IF catalogManaged
    THEN SelectSeq(recs, LAMBDA image : image.CatalogOffering # Nil)
    ELSE recs

\* the images of recs, in order, that have a managed catalog offering
CatalogFilter(catalogManaged, recs) ==
    IF catalogManaged
    THEN SelectSeq(recs, LAMBDA image :
             /\ image.CatalogOffering # Nil
             /\ catalogManaged = image.CatalogOffering[1].managed)
    ELSE recs

\* the map imageList builds for an image; access_tags is the empty list
\* when the lookup of the tags has failed
ImageToMap(image, tagsOk) ==
    [id |-> image.id,
     status |-> image.status,
     catalog_offering |-> IF image.CatalogOffering # Nil
                          THEN << [managed |-> image.CatalogOffering[1].managed] >>
                          ELSE << >>,
     access_tags |-> IF tagsOk THEN << "tag" >> ELSE << >>]

\* dataSourceIBMISImagesID: the time of the read
dataSourceIBMISImagesID == "time.Now().UTC()"

NoAttrs == << >>

InitData ==
    /\ dsOp = "none"
    /\ dsPc = "idle"
    /\ dsId = ""
    /\ dsAttrs = NoAttrs
    /\ dsDiags = NoDiag
    /\ dsFailed = {}
    /\ config = << >>
    /\ pages = << >>
    /\ listImagesOptions = NoOptions
    /\ requests = << >>
    /\ start = ""
    /\ allrecs = << >>

\* imageList up to the pagination loop: the client, the arguments, the
\* options of the list request
imageListStart ==
    /\ dsPc = "idle"
    /\ \E cfg \in ImagesConfigs, coll \in Collections, clientOk \in BOOLEAN :
         /\ config' = cfg
         /\ pages' = coll
         /\ IF ~clientOk
            THEN /\ dsDiags' = DiscriminatedTerraformErrorf(
                                   ImagesName, "read", << "initialize-client" >>)
                 /\ dsFailed' = dsFailed \cup { "VpcV1API" }
                 /\ dsPc' = "done"
                 /\ UNCHANGED listImagesOptions
            ELSE /\ listImagesOptions' =
                      [NoOptions EXCEPT !.RemoteAccountID =
                          RemoteAccountFilter(
                              GetOkString(cfg.remote_account_id).v)]
                 /\ dsPc' = "list"
                 /\ UNCHANGED << dsDiags, dsFailed >>
    /\ dsOp' = "ibm_is_images"
    /\ UNCHANGED << dsId, dsAttrs, requests, start, allrecs >>
    /\ UNCHANGED << routeVars, flattenVars, testVars, inv >>

\* one turn of the pagination loop: the request, and its answer or failure
ListImagesWithContext ==
    /\ dsPc = "list"
    /\ LET options == NextOptions(listImagesOptions, start)
       IN /\ listImagesOptions' = options
          /\ requests' = Append(requests, options)
          /\ \E ok \in BOOLEAN :
               IF ~ok
               THEN /\ dsDiags' = TerraformErrorf(ImagesName, "read")
                    /\ dsFailed' = dsFailed \cup { "ListImages" }
                    /\ dsPc' = "done"
                    /\ UNCHANGED << start, allrecs >>
               ELSE LET availableImages == ListImages(pages, options)
                    IN /\ start' = GetNext(availableImages.Next)
                       /\ allrecs' = allrecs \o availableImages.Images
                       /\ dsPc' = IF start' = "" THEN "fetched" ELSE "list"
                       /\ UNCHANGED << dsDiags, dsFailed >>
    /\ UNCHANGED << dsOp, dsId, dsAttrs, config, pages >>
    /\ UNCHANGED << routeVars, flattenVars, testVars, inv >>

\* what can fail after the loop: the mapping of the remote of an image,
\* the mapping of its allowed use, the lookup of its access tags (all
\* three only when an image is left to map), and d.Set of the list
FinishInputs(recs) ==
    { in \in [remoteOk : BOOLEAN, allowedUseOk : BOOLEAN, tagsOk : BOOLEAN,
              setOk : BOOLEAN] :
        /\ Len(recs) = 0 => in.remoteOk /\ in.allowedUseOk /\ in.tagsOk
        /\ ~in.remoteOk => in.allowedUseOk /\ in.tagsOk /\ in.setOk }

\* imageList after the loop: the two filters, the maps, the ID, the list
imageListFinish ==
    /\ dsPc = "fetched"
    /\ LET status == GetOkString(config.status).v
           catalogManaged == GetOkBool(config.catalog_managed).v
           recs == CatalogFilter(catalogManaged, StatusFilter(status, allrecs))
       IN \E in \in FinishInputs(recs) :
            LET imagesInfo == [i \in 1..Len(recs) |->
                                  ImageToMap(recs[i], in.tagsOk)]
            IN /\ allrecs' = recs
               /\ dsFailed' = dsFailed
                    \cup (IF in.remoteOk THEN {} ELSE { "ImageRemote" })
                    \cup (IF in.allowedUseOk THEN {} ELSE { "AllowedUseToMap" })
                    \cup (IF in.tagsOk THEN {} ELSE { "GetGlobalTagsUsingCRN" })
               /\ IF ~in.remoteOk
                  THEN /\ dsDiags' = DiscriminatedTerraformErrorf(
                                ImageName, "read", << "initialize-client" >>)
                       /\ UNCHANGED << dsId, dsAttrs >>
                  ELSE /\ dsId' = dataSourceIBMISImagesID
                       /\ IF in.setOk
                          THEN /\ dsAttrs' = << [name |-> "images",
                                                 value |-> imagesInfo] >>
                               /\ dsDiags' = NoDiag
                          ELSE /\ dsAttrs' = dsAttrs
                               /\ dsDiags' = DiscriminatedTerraformErrorf(
                                      ImagesName, "read", << "images-set" >>)
    /\ dsPc' = "done"
    /\ UNCHANGED << dsOp, config, pages, listImagesOptions, requests, start >>
    /\ UNCHANGED << routeVars, flattenVars, testVars, inv >>

(***************************************************************************)
(* Data source ibm_pi_spp_placement_group                                  *)
(***************************************************************************)
\* diag.Errorf(...)
Errorf == [kind |-> "plain", resource |-> "", action |-> "", step |-> << >>]

\* the answers of client.Get: an error, no error and no response, or the
\* placement group, with or without a CRN
SPPGetAnswers ==
    { [err |-> TRUE,  response |-> Nil] ,
      [err |-> FALSE, response |-> Nil] }
    \cup { [err |-> FALSE,
            response |-> Some([ID |-> "pg-1", Crn |-> crn, Name |-> "pg",
                               Policy |-> "affinity",
                               MemberSharedProcessorPools |-> << "pool-1" >>])] :
           crn \in { "", "crn:pg-1" } }

\* the d.Set calls of the read for a response, in order
SPPAttrs(response, userTags) ==
    (IF response.Crn # ""
     THEN << [name |-> "crn", value |-> response.Crn],
             [name |-> "user_tags", value |-> userTags] >>
     ELSE << >>)
    \o << [name |-> "members", value |-> response.MemberSharedProcessorPools],
          [name |-> "name", value |-> response.Name],
          [name |-> "policy", value |-> response.Policy] >>

dataSourceIBMPISPPPlacementGroupRead ==
    /\ dsPc = "idle"
    /\ \E sessOk \in BOOLEAN, get \in SPPGetAnswers, tagsOk \in BOOLEAN :
         /\ config' = [pi_cloud_instance_id |-> "ws-1",
                       pi_spp_placement_group_id |-> "pg-1"]
         /\ IF ~sessOk
            THEN /\ dsDiags' = FromErr
                 /\ dsFailed' = { "IBMPISession" }
                 /\ UNCHANGED << dsId, dsAttrs >>
            ELSE IF get.err \/ get.response = Nil
            THEN /\ dsDiags' = Errorf
                 /\ dsFailed' = IF get.err THEN { "Get" } ELSE {}
                 /\ UNCHANGED << dsId, dsAttrs >>
            ELSE LET response == get.response[1]
                     lookup   == response.Crn # ""
                 IN /\ dsId' = response.ID
                    /\ dsAttrs' = SPPAttrs(response,
                                      IF tagsOk THEN << "tag" >> ELSE << >>)
                    /\ dsFailed' = IF lookup /\ ~tagsOk
                                   THEN { "GetGlobalTagsUsingCRN" } ELSE {}
                    /\ dsDiags' = NoDiag
    /\ dsOp' = "ibm_pi_spp_placement_group"
    /\ dsPc' = "done"
    /\ UNCHANGED << pages, listImagesOptions, requests, start, allrecs >>
    /\ UNCHANGED << routeVars, flattenVars, testVars, inv >>

(***************************************************************************)
(* Data source ibm_pi_key                                                  *)
(***************************************************************************)
\* the answers of sshkeyC.Get: an error, or the key
PIKeyGetAnswers ==
    { [err |-> TRUE, sshkeydata |-> Nil] }
    \cup { [err |-> FALSE,
            sshkeydata |-> Some([Name |-> "key-1", ID |-> "k1",
                                 CreationDate |-> "2024-01-01",
                                 Description |-> dsc,
                                 PrimaryWorkspace |-> pw,
                                 SSHKey |-> "ssh-rsa AAAA",
                                 Visibility |-> vis])] :
           dsc \in { "", "a key" }, pw \in BOOLEAN,
           vis \in { "account", "workspace" } }

\* the d.Set calls of the read for a key, in order
PIKeyAttrs(sshkeydata) ==
    << [name |-> "Attr_CreationDate", value |-> sshkeydata.CreationDate],
       [name |-> "Attr_Description", value |-> sshkeydata.Description],
       [name |-> "Attr_KeyName", value |-> sshkeydata.Name],
       [name |-> "Attr_PrimaryWorkspace",
        value |-> sshkeydata.PrimaryWorkspace],
       [name |-> "Attr_SSHKey", value |-> sshkeydata.SSHKey],
       [name |-> "Attr_SSHKeyID", value |-> sshkeydata.ID],
       [name |-> "Attr_Visibility", value |-> sshkeydata.Visibility] >>

\* a read that sets the ID from its argument before it looks at the error
\* of Get
PIKeyOutcome_SetIdFirst(curId, curAttrs, name, sessOk, get) ==
    IF ~sessOk
    THEN [id |-> curId, attrs |-> curAttrs, diags |-> FromErr,
          failed |-> { "IBMPISession" }]
    ELSE IF get.err
    THEN [id |-> name, attrs |-> curAttrs, diags |-> FromErr,
          failed |-> { "Get" }]
    ELSE [id |-> get.sshkeydata[1].Name,
          attrs |-> PIKeyAttrs(get.sshkeydata[1]),
          diags |-> NoDiag, failed |-> {}]

\* what dataSourceIBMPIKeyRead leaves in d and returns, for the answer of
\* IBMPISession and the answer of Get
PIKeyOutcome(curId, curAttrs, name, sessOk, get) ==
    IF ~sessOk
    THEN [id |-> curId, attrs |-> curAttrs, diags |-> FromErr,
          failed |-> { "IBMPISession" }]
    ELSE IF get.err
    THEN [id |-> curId, attrs |-> curAttrs, diags |-> FromErr,
          failed |-> { "Get" }]
    ELSE [id |-> get.sshkeydata[1].Name,
          attrs |-> PIKeyAttrs(get.sshkeydata[1]),
          diags |-> NoDiag, failed |-> {}]

dataSourceIBMPIKeyRead ==
    /\ dsPc = "idle"
    /\ \E sessOk \in BOOLEAN, get \in PIKeyGetAnswers :
         LET cfg == [pi_cloud_instance_id |-> "ws-1", pi_key_name |-> "key-1"]
             o   == PIKeyOutcome(dsId, dsAttrs, cfg.pi_key_name, sessOk, get)
         IN /\ config' = cfg
            /\ dsId' = o.id
            /\ dsAttrs' = o.attrs
            /\ dsDiags' = o.diags
            /\ dsFailed' = o.failed
    /\ dsOp' = "ibm_pi_key"
    /\ dsPc' = "done"
    /\ UNCHANGED << pages, listImagesOptions, requests, start, allrecs >>
    /\ UNCHANGED << routeVars, flattenVars, testVars, inv >>

(***************************************************************************)
(* The data sources as a system                                            *)
(***************************************************************************)
\* the framework takes what the read returned; the next read of a data
\* source starts from its arguments alone
DataReturn ==
    /\ dsPc = "done"
    /\ dsOp' = "none"
    /\ dsPc' = "idle"
    /\ dsId' = ""
    /\ dsAttrs' = NoAttrs
    /\ dsDiags' = NoDiag
    /\ dsFailed' = {}
    /\ config' = << >>
    /\ pages' = << >>
    /\ listImagesOptions' = NoOptions
    /\ requests' = << >>
    /\ start' = ""
    /\ allrecs' = << >>
    /\ UNCHANGED << routeVars, flattenVars, testVars, inv >>

DataNext ==
    \/ imageListStart
    \/ ListImagesWithContext
    \/ imageListFinish
    \/ dataSourceIBMPISPPPlacementGroupRead
    \/ dataSourceIBMPIKeyRead
    \/ DataReturn

(***************************************************************************)
(* TestAccIBMDatabaseInstance_Redis_Basic: the configurations, the steps   *)
(* and the ibm_database resource they exercise                             *)
(***************************************************************************)
\* a run applies at most MaxApplies configurations
MaxApplies == 4

\* rnd is "tf-redis-" followed by a number of acctest.RandIntRange(10, 100)
RandInts == { 10, 55, 99 }
TestNames == { << "tf-redis-", n >> : n \in RandInts }

databaseResourceGroup == << "default" >>

\* acc.Region()
Regions == { "us-south", "eu-gb" }

\* a value of a configuration template: a literal, or the verb %[i]s
Lit(v) == [verb |-> FALSE, v |-> v]
Arg(i) == [verb |-> TRUE, v |-> i]

\* variant of Sprintf: the verbs take the arguments in the order given
Sprintf_Positional(template, args) ==
    [k \in DOMAIN template |->
        IF k = "allowlist" \/ k = "users" THEN template[k]
        ELSE IF template[k].verb
             THEN args[IF k = "name" THEN 1 ELSE 2]
             ELSE template[k].v]

\* fmt.Sprintf on a template: every verb %[i]s becomes argument i
Sprintf(template, args) ==
    [k \in DOMAIN template |->
        IF k = "allowlist" \/ k = "users" THEN template[k]
        ELSE IF template[k].verb THEN args[template[k].v]
             ELSE template[k].v]

\* the ibm_database blocks of the four configurations
testAccCheckIBMDatabaseInstanceRedisBasic(group, name, accRegion) ==
    Sprintf([name |-> Arg(2), service |-> Lit("databases-for-redis"),
             plan |-> Lit("standard"), location |-> Arg(3),
             memory |-> Lit(4096), disk |-> Lit(1024),
             allowlist |-> << [address |-> "172.168.1.2/32",
                               description |-> "desc1"] >>,
             users |-> << >>],
            << group, name, accRegion >>)

\* variant of testAccCheckIBMDatabaseInstanceRedisFullyspecified: the
\* second allowlist block is missing
testAccCheckIBMDatabaseInstanceRedisFullyspecified_OneBlock(group, name, accRegion) ==
    Sprintf([name |-> Arg(2), service |-> Lit("databases-for-redis"),
             plan |-> Lit("standard"), location |-> Arg(3),
             memory |-> Lit(5120), disk |-> Lit(2048),
             allowlist |-> << [address |-> "172.168.1.2/32",
                               description |-> "desc1"] >>,
             users |-> << >>],
            << group, name, accRegion >>)

testAccCheckIBMDatabaseInstanceRedisFullyspecified(group, name, accRegion) ==
    Sprintf([name |-> Arg(2), service |-> Lit("databases-for-redis"),
             plan |-> Lit("standard"), location |-> Arg(3),
             memory |-> Lit(5120), disk |-> Lit(2048),
             allowlist |-> << [address |-> "172.168.1.2/32",
                               description |-> "desc1"],
                              [address |-> "172.168.1.1/32",
                               description |-> "desc"] >>,
             users |-> << >>],
            << group, name, accRegion >>)

testAccCheckIBMDatabaseInstanceRedisReduced(group, name, accRegion) ==
    Sprintf([name |-> Arg(2), service |-> Lit("databases-for-redis"),
             plan |-> Lit("standard"), location |-> Arg(3),
             memory |-> Lit(4096), disk |-> Lit(2048),
             allowlist |-> << >>,
             users |-> << >>],
            << group, name, accRegion >>)

testAccCheckIBMDatabaseInstanceRedisUserRole(group, name, accRegion) ==
    Sprintf([name |-> Arg(2), service |-> Lit("databases-for-redis"),
             plan |-> Lit("standard"), location |-> Arg(3),
             memory |-> Lit(8192), disk |-> Lit(2048),
             allowlist |-> << >>,
             users |-> << [name |-> "coolguy", role |-> "-@all +@read"] >>],
            << group, name, accRegion >>)

ConfigNames == { "basic", "fullyspecified", "reduced", "userrole" }

Config(which, name, accRegion) ==
    CASE which = "basic" ->
           testAccCheckIBMDatabaseInstanceRedisBasic(
               databaseResourceGroup, name, accRegion)
      [] which = "fullyspecified" ->
           testAccCheckIBMDatabaseInstanceRedisFullyspecified(
               databaseResourceGroup, name, accRegion)
      [] which = "reduced" ->
           testAccCheckIBMDatabaseInstanceRedisReduced(
               databaseResourceGroup, name, accRegion)
      [] which = "userrole" ->
           testAccCheckIBMDatabaseInstanceRedisUserRole(
               databaseResourceGroup, name, accRegion)

\* the steps of the test, in order, and the number each step checks
\* "allowlist.#" against
Steps == << "basic", "fullyspecified", "reduced", "userrole" >>
AllowlistCount == [basic |-> 1, fullyspecified |-> 2, reduced |-> 0,
                   userrole |-> 0]

\* the ibm_database resource: an apply followed by the read of the state
\* leaves the arguments of the configuration in the state, the allowlist
\* and the users replaced by those of the configuration
DatabaseApply(prior, cfg) ==
    [name |-> cfg.name, service |-> cfg.service, plan |-> cfg.plan,
     location |-> cfg.location, allowlist |-> cfg.allowlist,
     users |-> cfg.users]

InitTest ==
    /\ testName = << >>
    /\ region = ""
    /\ applied = << >>
    /\ dbState = << >>

\* the test starts: the name is drawn and the region is read
TestStart ==
    /\ testName = << >>
    /\ testName' \in TestNames
    /\ region' \in Regions
    /\ UNCHANGED << applied, dbState >>
    /\ UNCHANGED << routeVars, dataVars, flattenVars, inv >>

\* one configuration is applied and the state is read back
TestApply ==
    /\ testName # << >>
    /\ Len(applied) < MaxApplies
    /\ \E which \in ConfigNames :
         /\ applied' = Append(applied, which)
         /\ dbState' = DatabaseApply(dbState, Config(which, testName, region))
    /\ UNCHANGED << testName, region >>
    /\ UNCHANGED << routeVars, dataVars, flattenVars, inv >>

\* the test ends and the instance is destroyed
TestDestroy ==
    /\ applied # << >>
    /\ testName' = << >>
    /\ region' = ""
    /\ applied' = << >>
    /\ dbState' = << >>
    /\ UNCHANGED << routeVars, dataVars, flattenVars, inv >>

TestNext ==
    \/ TestStart
    \/ TestApply
    \/ TestDestroy

(***************************************************************************)
(* Two handler invocations on two resources at the same time               *)
(***************************************************************************)
\* an invocation is told at most MaxConcPolls times by its polls to go on
\* waiting
MaxConcPolls == 2

\* the two invocations, each on a resource of its own
Invocations == { 1, 2 }
ConcServer(i) == IF i = 1 THEN << "s" >> ELSE << "t" >>
ConcId(i)     == IF i = 1 THEN << "s", "/", "r" >> ELSE << "t", "/", "q" >>

\* what an invocation of Create or Delete holds: the handler, its place
\* ("call": before the mutating call, "wait": in the wait helper, "read":
\* before the final Read, "done"), the ID, attributes and diagnostics of
\* its d, the count of polls that said to go on, what the backend has
\* answered so far, and whether it moved while the other one was waiting
IdleInv ==
    [self |-> 0, op |-> "none", pc |-> "idle", id |-> << >>,
     attrs |-> [vpn_server |-> Unset, vpn_route |-> Unset],
     diags |-> NoDiag, polls |-> 0, heard |-> << >>, sawWait |-> FALSE]

StartInv(i, o) ==
    [IdleInv EXCEPT
       !.self = i, !.op = o, !.pc = "call",
       !.id = IF o = "create" THEN << >> ELSE ConcId(i),
       !.attrs = IF o = "create"
                 THEN [vpn_server |-> ConcServer(i), vpn_route |-> Unset]
                 ELSE [vpn_server |-> ConcServer(i),
                       vpn_route |-> SepIdParts(ConcId(i), Sep).parts[2]]]

\* the handler returns the diagnostics dg
InvFail(s, dg) == [s EXCEPT !.diags = dg, !.pc = "done"]

\* variant of InvData: the ID is kept in a place both invocations write
InvData_Shared(s) == [s EXCEPT !.id = inv[3 - s.self].id]

\* the d a handler is called with: the data of its own resource
InvData(s) == s

\* one step of Create or Delete on its d, given what the environment
\* answers at this step
InvStep(s, ev) ==
    LET d == InvData(s)
    IN
    CASE s.pc = "call" /\ s.op = "create" ->
           IF ~ev.clientOk
           THEN InvFail(s, DiscriminatedTerraformErrorf(
                               ResourceName, "create", << "initialize-client" >>))
           ELSE IF Failed(ev.resp.status)
           THEN InvFail(s, TerraformErrorf(ResourceName, "create"))
           ELSE [s EXCEPT !.id = BuildId(d.attrs.vpn_server, ev.resp.id),
                          !.pc = "wait"]
      [] s.pc = "call" /\ s.op = "delete" ->
           IF ~ev.clientOk
           THEN InvFail(s, DiscriminatedTerraformErrorf(
                               ResourceName, "delete", << "initialize-client" >>))
           ELSE IF SepIdParts(d.id, Sep).err
           THEN InvFail(s, DiscriminatedTerraformErrorf(
                               ResourceName, "delete", << "sep-id-parts" >>))
           ELSE IF Failed(ev.resp.status)
           THEN InvFail(s, TerraformErrorf(ResourceName, "delete"))
           ELSE [s EXCEPT !.pc = "wait"]
      [] s.pc = "wait" /\ ev.kind = "timeout" ->
           InvFail(s, TerraformErrorf(ResourceName, s.op))
      [] s.pc = "wait" /\ ev.kind = "poll" ->
           LET kind == IF s.op = "delete" THEN "deleted" ELSE "stable"
               c == Conform(Refresh(kind, d.id, ev.resp),
                            Pending(kind), Target(kind))
           IN IF c = "continue" THEN [s EXCEPT !.polls = @ + 1]
              ELSE IF c # "ok"
              THEN InvFail(s, TerraformErrorf(ResourceName, s.op))
              ELSE IF s.op = "delete"
              THEN [s EXCEPT !.id = << >>, !.pc = "done"]
              ELSE [s EXCEPT !.pc = "read"]
      [] s.pc = "read" ->
           LET o == ReadOutcome(d.id, d.attrs, ev.in)
           IN [s EXCEPT !.id = o.id, !.attrs = o.attrs, !.diags = o.diags,
                        !.pc = "done"]

\* the answers of the environment an invocation can get at its next step
ConcPollResponses ==
    { GetOk(l, FALSE, FALSE) : l \in { "pending", "stable", "deleting",
                                       "deleted" } }
    \cup { GetFail(st) : st \in { 404, 500 } }

ConcReadInputs ==
    { in \in ReadInputs :
        /\ in.failAt \in { 0, 2 }
        /\ in.resp \in { GetOk("stable", FALSE, FALSE), GetFail(0),
                         GetFail(404), GetFail(500) } }

ConcEvents(s) ==
    CASE s.pc = "call" ->
           { [kind |-> "call", clientOk |-> FALSE, resp |-> [status |-> 0, id |-> << >>]] }
           \cup { [kind |-> "call", clientOk |-> TRUE, resp |-> r] :
                    r \in IF s.op = "create"
                          THEN { [status |-> 201, id |-> << "n" >>],
                                 [status |-> 400, id |-> << >>] }
                          ELSE { [status |-> 202, id |-> << >>],
                                 [status |-> 404, id |-> << >>] } }
      [] s.pc = "wait" ->
           { [kind |-> "timeout"] }
           \cup { [kind |-> "poll", resp |-> r] : r \in ConcPollResponses }
      [] s.pc = "read" ->
           { [kind |-> "read", in |-> in] : in \in ConcReadInputs }
      [] OTHER -> {}

InitConc == inv = [i \in Invocations |-> IdleInv]

\* the framework calls a handler for each of the two resources
ConcStart ==
    /\ \A i \in Invocations : inv[i].pc = "idle"
    /\ \E ops \in [Invocations -> { "create", "delete" }] :
         inv' = [i \in Invocations |-> StartInv(i, ops[i])]
    /\ UNCHANGED << routeVars, dataVars, flattenVars, testVars >>

\* one of the two invocations takes its next step
ConcStep ==
    /\ \E i \in Invocations :
         \E ev \in ConcEvents(inv[i]) :
           LET next == InvStep(inv[i], ev)
           IN /\ next.polls <= MaxConcPolls
              /\ inv' = [inv EXCEPT ![i] =
                            [next EXCEPT
                               !.heard = Append(@, ev),
                               !.sawWait = @ \/ (inv[3 - i].pc = "wait"
                                                 /\ inv[3 - i].polls > 0)]]
    /\ UNCHANGED << routeVars, dataVars, flattenVars, testVars >>

\* both handlers have returned
ConcReturn ==
    /\ \A i \in Invocations : inv[i].pc = "done"
    /\ inv' = [i \in Invocations |-> IdleInv]
    /\ UNCHANGED << routeVars, dataVars, flattenVars, testVars >>

ConcNext ==
    \/ ConcStart
    \/ ConcStep
    \/ ConcReturn

(***************************************************************************)
(* The system                                                              *)
(***************************************************************************)
\* the framework takes what the handler returned: the ID and the
\* attributes stay with the resource, the rest ends with the invocation
Return ==
    /\ pc = "done"
    /\ pc' = "idle"
    /\ op' = "none"
    /\ written' = {}
    /\ diags' = NoDiag
    /\ trace' = << >>
    /\ sent' = {}
    /\ answers' = NoAnswers
    /\ w' = NoWait
    /\ UNCHANGED << id, attrs, created >>
    /\ UNCHANGED notRoute

Init == InitRoute /\ InitData /\ InitFlatten /\ InitTest /\ InitConc

Next ==
    \/ Return
    \/ Create
    \/ Read
    \/ Import
    \/ Update
    \/ Delete
    \/ PollStart
    \/ PollReturn
    \/ Timeout
    \/ GraceExpires
    \/ CtxCancel
    \/ Advance

Spec == Init /\ [][Next]_vars

\* the data sources alone
DataSpec == Init /\ [][DataNext]_vars

\* the flatten helpers alone
FlattenSpec == Init /\ [][FlattenNext]_vars

\* the acceptance test alone
TestSpec == Init /\ [][TestNext]_vars

\* two invocations of Create or Delete, interleaved in every order
ConcSpec == Init /\ [][ConcNext]_vars

\* the timers of WaitForState fire, the backend answers, and time passes
WaitStep == PollStart \/ PollReturn \/ Timeout \/ GraceExpires \/ Advance

FairSpec == Spec /\ WF_vars(WaitStep)

TypeOK ==
    /\ pc \in {"idle", "done", "wait"}
    /\ op \in {"none", "create", "read", "import", "update", "delete"}
    /\ w.kind \in {"none", "stable", "deleted"}

(***************************************************************************)
(* Properties                                                              *)
(***************************************************************************)
NoSep(str) == ~Contains(str, Sep)

Mutating == {"create", "update", "delete"}

Count(seq, set) == Cardinality({ i \in DOMAIN seq : seq[i] \in set })

\* C1: when the GET of Read is answered 404, Read clears the ID, returns
\* no diagnostics and has written no attribute
C1_ReadGone ==
    (pc = "done" /\ answers.read = 404)
        => (id = << >> /\ ~HasError(diags) /\ written = {})

C1_Witness ==
    pc = "done" /\ op = "read" /\ answers.read = 404 /\ id = << >>

\* C2: when the delete call of Delete is answered 404, Delete clears the
\* ID and returns no error diagnostics
C2_DeleteGone ==
    (pc = "done" /\ op = "delete" /\ answers.mut = 404)
        => (id = << >> /\ ~HasError(diags))

\* C3: a poll of the delete wait that is answered 404 is reported as
\* "deleted" without error; the wait then succeeds, Delete clears the ID
\* and returns no diagnostics
C3_PollGone ==
    /\ (pc = "wait" /\ w.kind = "deleted")
          => DeletedRefresh(id, GetFail(404)) =
                 [state |-> "deleted", err |-> FALSE]
    /\ (pc = "done" /\ w.kind = "deleted" /\ w.lastStatus = 404)
          => (/\ w.ended = "ok"
              /\ w.lastState = "deleted"
              /\ id = << >>
              /\ ~HasError(diags))

C3_Witness ==
    /\ pc = "done" /\ op = "delete" /\ w.lastStatus = 404
    /\ w.ended = "ok" /\ id = << >>

\* the requests other than the create call that the handler has sent all
\* carry the two identifiers Create combined, and the ID splits into them
SentAsCreated ==
    /\ \A c \in sent :
         c[1] # "create" => (c[2] = created[1] /\ c[3] = created[2])
    /\ (\E c \in sent : c[1] # "create") =>
           SepIdParts(id, Sep).parts = created

\* C4 as stated: for every s and r, the ID Create builds from s and r
\* decomposes back into s and r in every later request
C4_RoundTripAll ==
    (created # << >>) => SentAsCreated

\* C4 as amended: for every s and r that contain no "/", the ID Create
\* builds from s and r decomposes back into s and r in every later request
C4_RoundTrip ==
    (created # << >> /\ NoSep(created[1]) /\ NoSep(created[2]))
        => SentAsCreated

C4_Witness ==
    /\ created # << >> /\ NoSep(created[1]) /\ NoSep(created[2])
    /\ op = "delete" /\ pc = "wait" /\ w.polls > 0
    /\ << "delete", created[1], created[2] >> \in sent
    /\ << "get", created[1], created[2] >> \in sent

\* C5: after a Create, Read or Update that returns no diagnostics and
\* leaves a non-empty ID, the ID is vpn_server + "/" + vpn_route, the path
\* parameters of the GET that populated the state
C5_IdIsAttrs ==
    (/\ pc = "done"
     /\ op \in {"create", "read", "import", "update"}
     /\ ~HasError(diags)
     /\ id # << >>)
        => (/\ id = BuildId(attrs.vpn_server, attrs.vpn_route)
            /\ << "get", attrs.vpn_server, attrs.vpn_route >> \in sent)

\* C6: the stable wait returns without error only if its last poll
\* reported "stable" or "failed"; while polls report "pending" or
\* "updating" it goes on
C6_StableOnlyOnTarget ==
    /\ (w.kind = "stable" /\ w.ended = "ok")
           => w.lastState \in {"stable", "failed"}
    /\ (w.kind = "stable" /\ w.lastState \in {"pending", "updating"})
           => w.ended # "ok"

C6_Witness ==
    w.kind = "stable" /\ w.ended = "ok" /\ w.lastState = "failed" /\ w.polls > 1

\* C7 as stated: a wait ends only with a poll that observes a target
\* state (success) or with the timeout (error)
C7_TwoWaysOnly ==
    /\ w.ended \in {"none", "ok", "timeout"}
    /\ (w.ended = "ok" => w.lastState \in Target(w.kind))

\* C7 as amended: a wait goes on while its polls report pending states and
\* ends in one of these ways: a poll observes a target state (success,
\* also for the poll in flight when the timeout fires), the timeout fires
\* (error), the GET of a poll fails other than by a 404 in the delete
\* wait (error), a poll reports a state that is neither pending nor a
\* target (error), or the context is cancelled (error)
C7_WaysToEnd ==
    /\ (pc = "wait") = (w.kind # "none" /\ w.ended = "none")
    /\ (pc = "wait" /\ w.polls > 0 /\ w.gr # "refresh")
           => (w.lastStatus = 200 /\ w.lastState \in Pending(w.kind))
    /\ w.ended \in {"none", "ok", "timeout", "refresh-error",
                    "unexpected-state", "cancelled"}
    /\ (w.ended = "ok") => (w.lastState \in Target(w.kind))
    /\ (w.ended = "timeout") => w.fired
    /\ (w.ended = "refresh-error")
           => (/\ ~w.fired
               /\ w.lastStatus # 200
               /\ (w.kind = "deleted" => w.lastStatus # 404))
    /\ (w.ended = "unexpected-state")
           => (/\ ~w.fired
               /\ w.lastStatus = 200
               /\ w.lastState \notin (Pending(w.kind) \cup Target(w.kind)))
    /\ (w.ended = "cancelled") => ~w.fired
    /\ (w.ended \notin {"none", "ok"}) => HasError(diags)

C7_Witness ==
    w.kind = "deleted" /\ w.ended = "refresh-error" /\ w.polls > 1

\* C8: every wait returns: a handler that is inside a wait helper leaves
\* it, at the latest when the timeout and the grace period of a poll in
\* flight have elapsed, and with an error unless a poll reported a target
\* state
C8_WaitReturns ==
    /\ [](pc = "wait" => w.now <= w.timeout + refreshGracePeriod)
    /\ [](pc = "done" /\ w.ended # "ok" /\ w.kind # "none" => HasError(diags))
    /\ ((pc = "wait") ~> (pc = "done"))

C8_Witness ==
    pc = "done" /\ w.ended = "timeout" /\ w.polls > 0 /\ HasError(diags)

\* C9: consecutive polls are 10 seconds apart, the wait of Create, Update
\* and Delete runs with the create, update and delete timeout, and no
\* poll starts later than that timeout
C9_PollTiming ==
    /\ w.gap \in {-1, 10 * Second}
    /\ (pc = "wait") => (/\ op \in TimeoutKeys
                         /\ w.timeout = DTimeout(w.cfg, op))
    /\ (pc = "wait" /\ w.polls > 0) => (w.started <= w.timeout)
    /\ (pc = "wait" /\ w.polls = 1) => (w.started = 10 * Second)

C9_Witness ==
    pc = "wait" /\ op = "delete" /\ w.gr = "refresh" /\ w.gap = 10 * Second

\* C10: a handler issues its mutating call at most once; when the call
\* fails the handler returns an error diagnostic and neither waits nor
\* reads; only the GET of the polls is repeated
C10_NoRetry ==
    /\ Count(trace, Mutating) <= 1
    /\ Count(trace, {"read"}) <= 1
    /\ (answers.mut # -1 /\ answers.mut \notin 200..299)
           => (/\ pc = "done"
               /\ HasError(diags)
               /\ w.kind = "none"
               /\ Count(trace, {"poll", "read"}) = 0
               /\ Count(trace, Mutating) = 1
               /\ Cardinality(sent) = 1)

C10_Witness ==
    /\ pc = "done" /\ op = "update" /\ answers.mut = 500
    /\ HasError(diags) /\ trace = << "update" >>

C10_WitnessPolls ==
    pc = "wait" /\ Count(trace, {"poll"}) > 1

(***************************************************************************)
(* Properties of the diagnostics                                           *)
(***************************************************************************)
\* the diagnostic is a provider diagnostic that names a resource, an
\* action and a sub-step
Labelled(dg) ==
    /\ dg.kind = "tferr"
    /\ dg.resource # ""
    /\ dg.action # ""
    /\ dg.step # << >>

\* C11: every error a handler of the VPN server route or the read of the
\* images data source returns is a provider diagnostic that carries a
\* resource name, an action and a sub-step label.
C11_AllLabelled ==
    /\ (pc = "done" /\ HasError(diags)) => Labelled(diags)
    /\ (dsPc = "done" /\ dsOp = "ibm_is_images" /\ HasError(dsDiags))
           => Labelled(dsDiags)

\* C12: when a call of the SDK or of a helper has failed during a read of
\* a data source, the read returns an error diagnostic: no failure is
\* swallowed.
C12_NoSwallow ==
    (dsPc = "done" /\ dsFailed # {}) => HasError(dsDiags)

(***************************************************************************)
(* Properties of the images data source                                    *)
(***************************************************************************)
RECURSIVE Concat(_)
Concat(seqs) ==
    IF seqs = << >> THEN << >> ELSE Head(seqs) \o Concat(Tail(seqs))

\* the images the backend returned to the requests of this read, in order
FetchedImages ==
    Concat([i \in 1..Len(requests) |-> ListImages(pages, requests[i]).Images])

\* the read of the images data source has returned without an error
ImagesRead ==
    dsOp = "ibm_is_images" /\ dsPc = "done" /\ ~HasError(dsDiags)

\* the identifiers of the images in the result, in order
ResultIds ==
    LET images == dsAttrs[1].value
    IN [i \in 1..Len(images) |-> images[i].id]

InResult(image) == \E i \in 1..Len(ResultIds) : ResultIds[i] = image.id

StatusAsked(image) == config.status = "" \/ image.status = config.status

Managed(image) ==
    image.CatalogOffering # Nil /\ image.CatalogOffering[1].managed

C18_RemoteAccount ==
    dsOp = "ibm_is_images" =>
      \A i \in 1..Len(requests) :
        requests[i].RemoteAccountID =
          CASE config.remote_account_id = ""         -> Nil
            [] config.remote_account_id = "user"     -> Some("null")
            [] config.remote_account_id = "provider" -> Some("not:null")
            [] OTHER -> Some(config.remote_account_id)

C18_Witness ==
    /\ dsOp = "ibm_is_images"
    /\ config.remote_account_id = "provider"
    /\ Len(requests) = 2
    /\ requests[2].RemoteAccountID = Some("not:null")

\* C19: the result is the list of the fetched images, in fetched order,
\* whose status is the status argument (every status when it is unset) and
\* which pass the catalog_managed filter; the status argument is one of the
\* allowed values; the filters act once every page has been fetched.
C19_StatusFilter ==
    /\ dsOp = "ibm_is_images" => config.status \in isImageStatusAllowed \cup {""}
    /\ ImagesRead =>
         /\ start = ""
         /\ ResultIds =
              LET kept == SelectSeq(FetchedImages, LAMBDA image :
                              /\ StatusAsked(image)
                              /\ config.catalog_managed = Some(TRUE)
                                   => Managed(image))
              IN [i \in 1..Len(kept) |-> kept[i].id]

C19_Witness ==
    /\ ImagesRead
    /\ config.status = "available"
    /\ config.catalog_managed = Some(TRUE)
    /\ Len(requests) = 2
    /\ Len(FetchedImages) = 2
    /\ FetchedImages[1].status = "deprecated"
    /\ ResultIds = << 2 >>

\* C20: the first list request has no start token, every later one carries
\* the token of the next reference of the answer before it, the loop goes
\* on while the answer has a next reference and ends at the first answer
\* without one: one request per page, and the records are the images of
\* all pages in page order, each image once.
C20_Pagination ==
    dsOp = "ibm_is_images" =>
      /\ \A i \in 1..Len(requests) :
           requests[i].Start =
             IF i = 1 THEN Nil
             ELSE Some(GetNext(ListImages(pages, requests[i - 1]).Next))
      /\ \A i \in 1..Len(requests) : PageOf(requests[i]) = i
      /\ dsPc = "list" => Len(requests) < Len(pages)
      /\ dsPc = "fetched" =>
           /\ Len(requests) = Len(pages)
           /\ allrecs = Concat(pages)
           /\ \A i, j \in 1..Len(allrecs) :
                allrecs[i].id = allrecs[j].id => i = j

C20_Witness ==
    /\ dsOp = "ibm_is_images"
    /\ dsPc = "fetched"
    /\ Len(pages) = 2
    /\ Len(pages[1]) = 1
    /\ Len(pages[2]) = 1
    /\ Len(allrecs) = 2
    /\ requests[2].Start = Some(Token(2))

(***************************************************************************)
(* Properties of the flatten helpers                                       *)
(***************************************************************************)
\* the entry carries the code, the message and the more_info of the
\* reason, and no more_info when the reason has none
SameFields(entry, reason) ==
    /\ reason.Code = Some(entry["code"])
    /\ reason.Message = Some(entry["message"])
    /\ IF "more_info" \in DOMAIN entry
       THEN reason.MoreInfo = Some(entry["more_info"])
       ELSE reason.MoreInfo = Nil

\* C14 as stated: the list a flatten helper returns has one entry per
\* input reason, in input order, with the fields of that reason.
C14_FaithfulAll ==
    flattenOp # "none" =>
      /\ Len(flattened) = Len(reasons)
      /\ \A i \in 1..Len(reasons) : SameFields(flattened[i], reasons[i])

\* C14: the list a flatten helper returns has one entry per input reason
\* that has both a code and a message, in input order, with the code, the
\* message and (when there is one) the more_info of that reason; a reason
\* without code or without message has no entry.
C14_Faithful ==
    flattenOp # "none" =>
      LET kept == SelectSeq(reasons,
                      LAMBDA r : r.Code # Nil /\ r.Message # Nil)
      IN /\ Len(flattened) = Len(kept)
         /\ \A i \in 1..Len(kept) : SameFields(flattened[i], kept[i])

C14_Witness ==
    /\ flattenOp = "health"
    /\ Len(reasons) = 2
    /\ reasons[1].Code = Nil
    /\ reasons[2].Code = Some("c2") /\ reasons[2].Message # Nil
    /\ reasons[2].MoreInfo # Nil
    /\ Len(flattened) = 1
    /\ flattened[1]["code"] = "c2"
    /\ "more_info" \in DOMAIN flattened[1]

(***************************************************************************)
(* Properties of the Redis database test                                   *)
(***************************************************************************)
LastApplied == applied[Len(applied)]

RECURSIVE RunAlone(_, _)
RunAlone(s, events) ==
    IF events = << >> THEN s
    ELSE RunAlone(InvStep(s, Head(events)), Tail(events))

FetchCalls == { "VpcV1API", "ListImages", "IBMPISession", "Get" }

\* C21: when the client initialisation or the SDK fetch of a data source
\* read has failed (for the images, the list request of any page), the read
\* returns an error diagnostic and has written neither the ID nor any
\* attribute; the images of the pages fetched before are not in d.
C21_NothingWritten ==
    (dsPc = "done" /\ dsFailed \cap FetchCalls # {})
        => /\ HasError(dsDiags)
           /\ dsId = ""
           /\ dsAttrs = NoAttrs

\* the list request of the second page has failed after the first page
\* brought images
C21_Witness ==
    /\ dsPc = "done"
    /\ dsOp = "ibm_is_images"
    /\ "ListImages" \in dsFailed
    /\ Len(requests) >= 2
    /\ Len(allrecs) >= 1
    /\ HasError(dsDiags)
    /\ dsId = ""
    /\ dsAttrs = NoAttrs

(***************************************************************************)
(* The order of Create, and what Delete, Create and Update end on          *)
(***************************************************************************)
\* the create call of this invocation was sent and was answered with an
\* error
CreateCallFailed ==
    /\ Len(trace) >= 1
    /\ trace[1] = "create"
    /\ answers.mut \notin 200..299

\* the ID "<vpn_server>/<route id>" of the route the create call returned
CreatedId == attrs.vpn_server \o << Sep >> \o created[2]

\* C22: Create makes the create call, then sets the ID, then polls for the
\* stable state, then reads.  When the create call has failed the ID stays
\* empty and no poll and no read is made; when it has succeeded the ID is
\* "<vpn_server>/<route id>" before the first poll and during the wait, and
\* it stays so when the wait returns an error or times out, Create then
\* returning an error diagnostic without reading.
C22_CreateOrder ==
    op = "create" =>
      /\ \A i \in 1..Len(trace) :
           /\ (i = 1) => trace[i] = "create"
           /\ (i = 2) => trace[i] = "setid"
           /\ (i >= 3) => trace[i] \in { "poll", "read", "setid" }
           /\ (i >= 3 /\ trace[i] = "read") =>
                /\ w.ended = "ok"
                /\ \A j \in 3..(i - 1) : trace[j] = "poll"
           /\ (i >= 3 /\ trace[i] = "setid") => trace[i - 1] = "read"
      /\ CreateCallFailed =>
           /\ id = << >>
           /\ trace = << "create" >>
           /\ w.polls = 0
           /\ answers.read = -1
           /\ \A req \in sent : req[1] # "get"
      /\ pc = "wait" => /\ Len(trace) >= 2
                        /\ id = CreatedId
      /\ (pc = "done" /\ w.ended \notin { "none", "ok" }) =>
           /\ HasError(diags)
           /\ id = CreatedId
           /\ answers.read = -1
           /\ \A i \in 1..Len(trace) : trace[i] # "read"

\* Create has set the ID, has polled, and has returned an error after the
\* timeout of the wait, with the ID still set
C22_Witness ==
    /\ op = "create"
    /\ pc = "done"
    /\ w.ended = "timeout"
    /\ w.polls >= 1
    /\ Len(trace) >= 3
    /\ trace[1] = "create" /\ trace[2] = "setid" /\ trace[3] = "poll"
    /\ HasError(diags)
    /\ id = CreatedId
    /\ id # << >>

\* C23: Delete clears the ID and returns no error only when a poll of the
\* delete wait found the route gone: the poll was answered 404, or it was
\* answered with the lifecycle state "deleted".
C23_DeleteOnlyWhenGone ==
    (op = "delete" /\ pc = "done" /\ id = << >> /\ ~HasError(diags))
        => /\ w.ended = "ok"
           /\ \/ w.lastStatus = 404
              \/ w.lastStatus = 200
                   /\ w.lastState = isVPNServerRouteStatusDeleted

\* C24: Create and Update return no error diagnostic only when the last
\* poll of isWaitForVPNServerRouteStable reported the lifecycle state
\* "stable"; a route that ends in "failed" makes them return an error.
C24_SuccessOnlyWhenStable ==
    (op \in { "create", "update" } /\ pc = "done" /\ ~HasError(diags))
        => /\ w.ended = "ok"
           /\ w.lastState = isVPNServerRouteStatusStable

(***************************************************************************)
(* Where the ID changes                                                    *)
(***************************************************************************)
\* the step is one of the three places that write the ID: d.SetId of Create
\* after the create call has succeeded, d.SetId("") of Read on a 404, and
\* d.SetId("") of Delete after the delete call and the delete wait have
\* succeeded
IdChangePoint ==
    \/ /\ op' = "create"
       /\ pc = "idle"
       /\ answers'.mut \in 200..299
       /\ id = << >>
       /\ id' = attrs'.vpn_server \o << Sep >> \o created'[2]
    \/ /\ op' \in { "read", "create", "update" }
       /\ answers'.read = 404
       /\ id' = << >>
    \/ /\ op' = "delete"
       /\ answers'.mut \in 200..299
       /\ w'.ended = "ok"
       /\ id' = << >>

\* a Read whose GET is not answered 404, and a Delete whose delete call or
\* wait fails, leave the ID as it is
ReadDeleteFrame ==
    /\ (op' = "read" /\ answers'.read # 404) => id' = id
    /\ (op' = "delete" /\ (answers'.mut \notin 200..299 \/ w'.ended # "ok"))
           => id' = id

\* C25 as stated: in the handlers (terraform import, where the framework
\* sets the ID, left aside) the ID changes at the three points only, and
\* Update leaves it unchanged.
C25_ThreePointsOnly ==
    [][ op' # "import" =>
          /\ (id' # id => IdChangePoint)
          /\ ReadDeleteFrame
          /\ (op' = "update" => id' = id) ]_vars

\* C25: the ID changes at the three points only, and on terraform import,
\* where the framework sets it before Read runs.  The Read that clears it
\* on a 404 is also the Read that closes Create and Update: Update leaves
\* the ID unchanged unless its closing Read is answered 404.
C25_IdChanges ==
    [][ /\ (id' # id) =>
             \/ IdChangePoint
             \/ /\ op' = "import"
                /\ id = << >>
                /\ id' \in ImportIds
                /\ answers'.read # 404
        /\ ReadDeleteFrame
        /\ (op' = "update" /\ answers'.read # 404) => id' = id ]_vars

\* an Update has called the update API, has waited, and its closing Read
\* was answered 404 and has cleared the ID
C25_Witness ==
    /\ op = "update"
    /\ pc = "done"
    /\ w.ended = "ok"
    /\ answers.mut \in 200..299
    /\ answers.read = 404
    /\ id = << >>
    /\ ~HasError(diags)

=============================================================================
